---------------------------- MODULE Spec2Model ----------------------------
(***************************************************************************)
(* A model of src/main.py: the keyword responder generate_reply, the POST  *)
(* /api/chat handler chat and the GET /test handler test_database.         *)
(*                                                                         *)
(* Text is a sequence of characters.  A character is a one-character       *)
(* string, except those that are not ASCII: "aa", "oe" and "ae" are the    *)
(* Norwegian letters a-with-ring (U+00E5), o-with-stroke (U+00F8) and the  *)
(* ae ligature (U+00E6), "AA", "OE" and "AE" their capitals, "dotless_i"   *)
(* is U+0131 and "long_s" is U+017F.  The fixed reply and suggestion       *)
(* texts, which the model only compares, are written with aa, oe and ae.   *)
(***************************************************************************)
EXTENDS Integers, Sequences, FiniteSets, TLC

VARIABLES
    msg,          \* the argument of generate_reply: None or a text
    pieces,       \* how many pieces msg was put together from
    response,     \* << >>, then <<r>>: the ChatResponse r returned for msg
    base,         \* a first message, of which msg is then a variant
    baseResponse, \* << >>, then <<r>>: the ChatResponse r returned for base
    pending,      \* POST /api/chat requests received and not yet answered
    served,       \* the answered requests with their responses, in order
    environ,      \* os.environ: DATABASE_URL and DATABASE_NAME
    probe,        \* what the database module did in the last GET /test
    result        \* << >>, then <<d>>: the dict d the last GET /test returned

vars == <<msg, pieces, response, base, baseResponse, pending, served, environ, probe, result>>

\* Python's None where a text is expected: a value that is no text.
None == << "None" >>

-----------------------------------------------------------------------------
(* Characters and the two string methods of line 32.                       *)

Whitespace == {" ", "\t", "\n"}

SmallLetters ==
    << "a", "b", "c", "d", "e", "f", "g", "h", "i", "j", "k", "l", "m", "n",
       "o", "p", "q", "r", "s", "t", "u", "v", "w", "x", "y", "z", "aa", "oe",
       "ae" >>

CapitalLetters ==
    << "A", "B", "C", "D", "E", "F", "G", "H", "I", "J", "K", "L", "M", "N",
       "O", "P", "Q", "R", "S", "T", "U", "V", "W", "X", "Y", "Z", "AA", "OE",
       "AE" >>

Range(seq) == {seq[i] : i \in 1..Len(seq)}

IndexIn(seq, c) == CHOOSE i \in 1..Len(seq) : seq[i] = c

\* The small letter of each capital, and the capital of each small letter.
ToSmall == [c \in Range(CapitalLetters) |-> SmallLetters[IndexIn(CapitalLetters, c)]]

ToCapital == [c \in Range(SmallLetters) |-> CapitalLetters[IndexIn(SmallLetters, c)]]

\* str.lower() on one character: a capital becomes its small letter; small
\* letters, among them dotless i and long s, and all other characters stay.
LowerChar(c) == IF c \in DOMAIN ToSmall THEN ToSmall[c] ELSE c

\* str.upper() on one character: a small letter becomes its capital, and
\* dotless i and long s become the capitals I and S.
UpperChar(c) ==
    IF c \in DOMAIN ToCapital THEN ToCapital[c]
    ELSE IF c = "dotless_i" THEN "I"
    ELSE IF c = "long_s" THEN "S"
    ELSE c

\* lower() that knows the letters A to Z only and leaves the capital
\* Norwegian letters as they are.
lower_ascii(s) ==
    [i \in 1..Len(s) |-> IF s[i] \in {"AA", "OE", "AE"} THEN s[i] ELSE LowerChar(s[i])]

lower(s) == [i \in 1..Len(s) |-> LowerChar(s[i])]

\* strip(" "): only the space is taken off the two ends.
strip_spaces(s) ==
    LET inked == {i \in 1..Len(s) : s[i] # " "}
    IN  IF inked = {} THEN << >>
        ELSE SubSeq(s, CHOOSE i \in inked : \A j \in inked : i <= j,
                       CHOOSE i \in inked : \A j \in inked : i >= j)

\* str.strip(): the text between its first and its last non-whitespace
\* character, empty when it has none.
strip(s) ==
    LET inked == {i \in 1..Len(s) : s[i] \notin Whitespace}
    IN  IF inked = {} THEN << >>
        ELSE SubSeq(s, CHOOSE i \in inked : \A j \in inked : i <= j,
                       CHOOSE i \in inked : \A j \in inked : i >= j)

\* w in text
Contains(w, text) ==
    \E i \in 1..(Len(text) - Len(w) + 1) :
        \A j \in 1..Len(w) : text[i + j - 1] = w[j]

\* any(w in text for w in words)
AnyIn(words, text) == \E w \in words : Contains(w, text)

\* (msg or "").strip().lower()
Normalize(m) == lower(strip(IF m = None THEN << >> ELSE m))

-----------------------------------------------------------------------------
(* The trigger words of the eight tests of generate_reply.                 *)

\* The greeting words with a stray empty word, which every text contains.
GreetingWordsWithEmpty ==
    { << >>, <<"h","e","i">>, <<"h","a","l","l","o">>,
      <<"h","e","i","s","a","n","n">>, <<"g","o","d"," ","d","a","g">> }

GreetingWords ==
    { <<"h","e","i">>, <<"h","a","l","l","o">>,
      <<"h","e","i","s","a","n","n">>, <<"g","o","d"," ","d","a","g">> }

NybyggWords ==
    { <<"n","y","b","y","g","g">>, <<"n","y"," ","b","y","g","g">> }

VedlikeholdWords == { <<"v","e","d","l","i","k","e","h","o","l","d">> }

SikkerhetWords ==
    { <<"s","i","k","k","e","r","h","e","t">>, <<"s","h","a">> }

BeredskapWords ==
    { <<"b","e","r","e","d","s","k","a","p">>, <<"u","h","e","l","l">>,
      <<"a","k","u","t","t">> }

\* The KL/signal words without the two-letter "kl".
SignalWordsWithoutKl ==
    { <<"k","o","n","t","a","k","t","l","e","d","n","i","n","g">>,
      <<"s","i","g","n","a","l">> }

SignalWords ==
    { <<"k","l">>,
      <<"k","o","n","t","a","k","t","l","e","d","n","i","n","g">>,
      <<"s","i","g","n","a","l">> }

TilbudWords ==
    { <<"t","i","l","b","u","d">>, <<"b","e","f","a","r","i","n","g">>,
      <<"k","o","n","t","a","k","t">>, <<"e","-","p","o","s","t">>,
      <<"t","e","l","e","f","o","n">> }

CoverageWords ==
    { <<"o","m","r","aa","d","e">>, <<"r","e","g","i","o","n">>,
      <<"h","v","o","r">>, <<"d","e","k","k","e","r">> }

-----------------------------------------------------------------------------
(* The nine responses.                                                     *)

ChatResponse(reply, suggestions) == [reply |-> reply, suggestions |-> suggestions]

GreetingResponse ==
    ChatResponse(
        "Hei! Hva kan vi hjelpe deg med i dag? Vi tilbyr nybygg, vedlikehold, sikkerhet og beredskap innen jernbane.",
        << "Fortell meg om nybygg", "Hvordan fungerer vedlikehold?",
           "Hva innebaerer sikkerhet?", "Har dere beredskap 24/7?" >>)

NybyggResponse ==
    ChatResponse(
        "Nybygg: Vi prosjekterer og bygger nye jernbaneanlegg og spor. Vi haandterer planlegging, logistikk, bygging og kvalitetssikring, med fokus paa sikker fremdrift og levering til avtalt tid.",
        << "Kan jeg faa et tilbud?", "Hvilke regioner dekker dere?" >>)

VedlikeholdResponse ==
    ChatResponse(
        "Vedlikehold: Vi utfoerer forebyggende og korrektivt vedlikehold paa spor. Arbeidet tilpasses trafikk og sikkerhetskrav, med dokumentasjon etter ferdigstillelse.",
        << "Kan dere nattarbeid?", "Hva er responstiden deres?" >>)

SikkerhetResponse ==
    ChatResponse(
        "Sikkerhet: Vi foelger strenge prosedyrer, risikovurderer oppdrag og bruker sertifisert personell. HMS og kvalitet staar alltid foerst.",
        << "Hvilke sertifiseringer har dere?",
           "Hvordan planlegger dere sikker jobbanalyse?" >>)

BeredskapResponse ==
    ChatResponse(
        "Beredskap: Vi tilbyr doegnkontinuerlig beredskap for uforutsette hendelser, med rask mobilisering av mannskap og utstyr for aa sikre og gjenaapne strekninger.",
        << "Hvordan kontakter jeg beredskap?", "Dekker dere hele Norge?" >>)

SignalResponse ==
    ChatResponse(
        "Vi fokuserer paa nybygg, vedlikehold, sikkerhet og beredskap. KL- og signalarbeid inngaar ikke i vaart tilbud per naa.",
        << "Fortell om nybygg", "Hva med vedlikehold?" >>)

TilbudResponse ==
    ChatResponse(
        "For tilbud eller befaring: Send oss en melding via kontaktskjemaet nedenfor, saa svarer vi raskt. Legg gjerne ved kort beskrivelse av oppdraget og oensket tidsramme.",
        << "Hvor raskt kan dere starte?", "Hvilke omraader dekker dere?" >>)

\* The Coverage response with the suggestions left to the field's default.
CoverageResponseBare ==
    [reply |-> "Vi leverer oppdrag over hele Norge. Mobil gjennomfoering med mannskap og utstyr etter behov.",
     suggestions |-> << >>]

CoverageResponse ==
    ChatResponse(
        "Vi leverer oppdrag over hele Norge. Mobil gjennomfoering med mannskap og utstyr etter behov.",
        << "Kan dere nattarbeid?", "Gi meg et tilbud" >>)

FallbackResponse ==
    ChatResponse(
        "Jeg forstaar. Kan du beskrive behovet litt naermere? Vi kan hjelpe med nybygg, vedlikehold, sikkerhet og beredskap innen jernbane.",
        << "Fortell om nybygg", "Hvordan fungerer vedlikehold?",
           "Hva innebaerer sikkerhet?", "Har dere beredskap 24/7?" >>)

-----------------------------------------------------------------------------
(* generate_reply: the first test that succeeds returns.                   *)

\* generate_reply with the Maintenance test moved before the
\* New-construction test.
generate_reply_maintenance_first(m) ==
    LET text == Normalize(m)
    IN  IF AnyIn(GreetingWords, text) THEN GreetingResponse
        ELSE IF AnyIn(VedlikeholdWords, text) THEN VedlikeholdResponse
        ELSE IF AnyIn(NybyggWords, text) THEN NybyggResponse
        ELSE IF AnyIn(SikkerhetWords, text) THEN SikkerhetResponse
        ELSE IF AnyIn(BeredskapWords, text) THEN BeredskapResponse
        ELSE IF AnyIn(SignalWords, text) THEN SignalResponse
        ELSE IF AnyIn(TilbudWords, text) THEN TilbudResponse
        ELSE IF AnyIn(CoverageWords, text) THEN CoverageResponse
        ELSE FallbackResponse

\* generate_reply without its last return: the function falls off its end
\* and gives no reply text and no suggestions.
generate_reply_without_fallback(m) ==
    LET text == Normalize(m)
    IN  IF AnyIn(GreetingWords, text) THEN GreetingResponse
        ELSE IF AnyIn(NybyggWords, text) THEN NybyggResponse
        ELSE IF AnyIn(VedlikeholdWords, text) THEN VedlikeholdResponse
        ELSE IF AnyIn(SikkerhetWords, text) THEN SikkerhetResponse
        ELSE IF AnyIn(BeredskapWords, text) THEN BeredskapResponse
        ELSE IF AnyIn(SignalWords, text) THEN SignalResponse
        ELSE IF AnyIn(TilbudWords, text) THEN TilbudResponse
        ELSE IF AnyIn(CoverageWords, text) THEN CoverageResponse
        ELSE [reply |-> "", suggestions |-> << >>]

generate_reply(m) ==
    LET text == Normalize(m)
    IN  IF AnyIn(GreetingWords, text) THEN GreetingResponse
        ELSE IF AnyIn(NybyggWords, text) THEN NybyggResponse
        ELSE IF AnyIn(VedlikeholdWords, text) THEN VedlikeholdResponse
        ELSE IF AnyIn(SikkerhetWords, text) THEN SikkerhetResponse
        ELSE IF AnyIn(BeredskapWords, text) THEN BeredskapResponse
        ELSE IF AnyIn(SignalWords, text) THEN SignalResponse
        ELSE IF AnyIn(TilbudWords, text) THEN TilbudResponse
        ELSE IF AnyIn(CoverageWords, text) THEN CoverageResponse
        ELSE FallbackResponse

-----------------------------------------------------------------------------
(* Calls of generate_reply on messages put together from pieces: every     *)
(* trigger word, fillers that form triggers across a seam, and the         *)
(* sentences the specification names.                                      *)

MaxPieces == 2

Fillers ==
    { <<" ">>, <<" ","o","g"," ">>, <<"x">>, <<"s">>, <<"k">>, <<"l">>,
      <<"H","E","I">>, <<"\t">>, <<"?">> }

NybyggOgVedlikehold ==
    <<"n","y","b","y","g","g"," ","o","g"," ",
      "v","e","d","l","i","k","e","h","o","l","d">>

HvaErKlokken == <<"h","v","a"," ","e","r"," ","k","l","o","k","k","e","n">>

HeiKanJeg ==
    <<"H","e","i",","," ","k","a","n"," ","j","e","g"," ","f","aa"," ",
      "e","t"," ","t","i","l","b","u","d"," ","p","aa"," ",
      "v","e","d","l","i","k","e","h","o","l","d","?">>

Sentences == {NybyggOgVedlikehold, HvaErKlokken, HeiKanJeg}

Pieces ==
    GreetingWords \cup NybyggWords \cup VedlikeholdWords \cup SikkerhetWords
        \cup BeredskapWords \cup SignalWords \cup TilbudWords \cup CoverageWords
        \cup Fillers \cup Sentences

InitOther ==
    /\ base = << >>
    /\ baseResponse = << >>
    /\ pending = {}
    /\ served = << >>
    /\ environ = [DATABASE_URL |-> None, DATABASE_NAME |-> None]
    /\ probe = << >>
    /\ result = << >>

\* The caller's message: missing, or a text that starts empty.
Init ==
    /\ msg \in {None, << >>}
    /\ response = << >>
    /\ pieces = 0
    /\ InitOther

\* The caller's text grows by one piece.
Type(p) ==
    /\ msg # None
    /\ response = << >>
    /\ pieces < MaxPieces
    /\ msg' = msg \o p
    /\ pieces' = pieces + 1
    /\ UNCHANGED <<response, base, baseResponse, pending, served, environ, probe, result>>

\* generate_reply(msg) is called and returns.
Call ==
    /\ response = << >>
    /\ response' = << generate_reply(msg) >>
    /\ UNCHANGED <<msg, pieces, base, baseResponse, pending, served, environ, probe, result>>

Next == (\E p \in Pieces : Type(p)) \/ Call

Spec == Init /\ [][Next]_vars

-----------------------------------------------------------------------------
(* The rules as the specification lists them, a to i, each with its        *)
(* trigger words and its response; the fallback i has the empty word,      *)
(* which every text contains.                                              *)

Rule(words, resp) == [words |-> words, response |-> resp]

RuleOrder ==
    << Rule(GreetingWords, GreetingResponse),
       Rule(NybyggWords, NybyggResponse),
       Rule(VedlikeholdWords, VedlikeholdResponse),
       Rule(SikkerhetWords, SikkerhetResponse),
       Rule(BeredskapWords, BeredskapResponse),
       Rule(SignalWords, SignalResponse),
       Rule(TilbudWords, TilbudResponse),
       Rule(CoverageWords, CoverageResponse),
       Rule({ << >> }, FallbackResponse) >>

Matches(i, text) == AnyIn(RuleOrder[i].words, text)

FirstRule(text) ==
    CHOOSE i \in 1..Len(RuleOrder) :
        Matches(i, text) /\ \A j \in 1..(i - 1) : ~Matches(j, text)

Templates == {RuleOrder[i].response : i \in 1..Len(RuleOrder)}

Replied == response # << >>

\* C1: the response is that of the first rule, in the order a to i, one of
\* whose trigger words the normalized text contains; "nybygg og
\* vedlikehold" gets the New-construction response and "Hei, kan jeg faa et
\* tilbud paa vedlikehold?" the Greeting response.
C1_FirstMatchWins ==
    Replied =>
        /\ LET text == Normalize(msg)
           IN  /\ response[1] = RuleOrder[FirstRule(text)].response
               /\ \A i \in 1..Len(RuleOrder) :
                     response[1] = RuleOrder[i].response =>
                         \A j \in 1..(i - 1) : ~Matches(j, text)
        /\ msg = NybyggOgVedlikehold => response[1] = NybyggResponse
        /\ msg = HeiKanJeg => response[1] = GreetingResponse

\* C1 witness: a text with a Maintenance and a Quote trigger and none of an
\* earlier rule was answered with the Maintenance response.
C1_Witness ==
    /\ Replied
    /\ LET text == Normalize(msg)
       IN  /\ Matches(3, text) /\ Matches(7, text)
           /\ ~Matches(1, text) /\ ~Matches(2, text)
    /\ response[1] = VedlikeholdResponse

\* C2: for every message, the missing one included, generate_reply returns
\* exactly one response; its reply is not empty and the response is one of
\* the nine templates.
C2_Total ==
    /\ LET r == generate_reply(msg) IN r.reply # "" /\ r \in Templates
    /\ Cardinality(Templates) = 9
    /\ Replied =>
          /\ Len(response) = 1
          /\ response[1].reply # ""
          /\ response[1] \in Templates

\* C2 witness: the missing message was answered.
C2_Witness == Replied /\ msg = None

Blank(m) == m = None \/ \A i \in 1..Len(m) : m[i] \in Whitespace

\* C4: a missing, empty or all-whitespace message normalizes to the empty
\* text, matches none of the rules a to h and gets the Fallback response
\* with its 4 suggestions.
C4_BlankFallsBack ==
    (Replied /\ Blank(msg)) =>
        /\ Normalize(msg) = << >>
        /\ LET text == Normalize(msg) IN \A i \in 1..8 : ~Matches(i, text)
        /\ response[1] = FallbackResponse
        /\ Len(response[1].suggestions) = 4

\* C4 witness: a message of two whitespace characters was answered.
C4_Witness == Replied /\ msg # None /\ Len(msg) = 2 /\ Blank(msg)

\* C6: a text that contains "kl", "kontaktledning" or "signal" and no
\* trigger of the rules a to e gets the Out-of-scope response, also when a
\* Quote or Coverage trigger is present; "hva er klokken" gets it.
C6_KlOutOfScope ==
    Replied =>
        /\ LET text == Normalize(msg)
           IN  ( /\ \/ Contains(<<"k","l">>, text)
                    \/ Contains(<<"k","o","n","t","a","k","t","l","e","d","n","i","n","g">>,
                                text)
                    \/ Contains(<<"s","i","g","n","a","l">>, text)
                 /\ \A i \in 1..5 : ~Matches(i, text) )
               => response[1] = SignalResponse
        /\ msg = HvaErKlokken => response[1] = SignalResponse

\* C6 witness: a text with a Quote trigger followed by "kl" was
\* answered with the Out-of-scope response.
C6_Witness ==
    /\ Replied
    /\ msg = <<"t","i","l","b","u","d">> \o <<"k","l">>
    /\ response[1] = SignalResponse

\* C7: every response has 2 to 4 suggestions, and they are the ones of the
\* matched rule: the reply text determines them.
C7_Suggestions ==
    Replied =>
        /\ Len(response[1].suggestions) \in 2..4
        /\ response[1].suggestions = RuleOrder[FirstRule(Normalize(msg))].response.suggestions
        /\ \A t \in Templates :
              t.reply = response[1].reply => t.suggestions = response[1].suggestions

\* C7 witness: a response with 2 suggestions and one with 4 exist; here the
\* Coverage response, which has 2, was returned.
C7_Witness == Replied /\ response[1] = CoverageResponse

\* For each rule, in the order a to i, one of its trigger words; for the
\* fallback the empty text.
OwnWord ==
    << <<"h","e","i">>,
       <<"n","y","b","y","g","g">>,
       <<"v","e","d","l","i","k","e","h","o","l","d">>,
       <<"s","i","k","k","e","r","h","e","t">>,
       <<"b","e","r","e","d","s","k","a","p">>,
       <<"k","l">>,
       <<"t","i","l","b","u","d">>,
       <<"r","e","g","i","o","n">>,
       << >> >>

\* C10: no rule is shadowed by the rules before it: each of the nine rules
\* has a trigger word that contains no trigger of an earlier rule and that,
\* sent as the message, gets that rule's response.
C10_NoRuleShadowed ==
    \A i \in 1..Len(RuleOrder) :
        (Replied /\ msg = OwnWord[i]) =>
            /\ OwnWord[i] \in RuleOrder[i].words
            /\ \A j \in 1..(i - 1) : ~Matches(j, OwnWord[i])
            /\ response[1] = RuleOrder[i].response
            /\ \A j \in 1..Len(RuleOrder) :
                  j # i => RuleOrder[j].response # response[1]

\* C10 witness: the last specific rule, Coverage, answered one of its own
\* trigger words.
C10_Witness == Replied /\ msg = OwnWord[8] /\ response[1] = CoverageResponse

-----------------------------------------------------------------------------
(* Two calls of generate_reply: on a message, and on the same message      *)
(* after letters were changed in case, with str.upper() or str.lower(),    *)
(* and whitespace was added or removed at its two ends.                    *)

MaxPad == 1

Bases ==
    { << >>, <<" ">>,
      <<"h","e","i">>,
      <<"N","y"," ","b","y","g","g">>,
      <<"o","m","r","aa","d","e">>,
      <<"x"," ","K","l","?">>,
      <<"h","e","dotless_i">>,
      <<"long_s","h","a">> }

InitNorm ==
    /\ base \in Bases
    /\ msg = base
    /\ pieces = 0
    /\ response = << >>
    /\ baseResponse = << >>
    /\ pending = {}
    /\ served = << >>
    /\ environ = [DATABASE_URL |-> None, DATABASE_NAME |-> None]
    /\ probe = << >>
    /\ result = << >>

Altering == baseResponse # << >> /\ response = << >>

\* generate_reply(base) is called and returns.
CallBase ==
    /\ baseResponse = << >>
    /\ baseResponse' = << generate_reply(base) >>
    /\ UNCHANGED <<msg, pieces, response, base, pending, served, environ, probe, result>>

\* The letter at position i is replaced by its str.upper().
ToUpper(i) ==
    /\ Altering
    /\ UpperChar(msg[i]) # msg[i]
    /\ msg' = [msg EXCEPT ![i] = UpperChar(@)]
    /\ UNCHANGED <<pieces, response, base, baseResponse, pending, served, environ, probe, result>>

\* The letter at position i is replaced by its str.lower().
ToLower(i) ==
    /\ Altering
    /\ LowerChar(msg[i]) # msg[i]
    /\ msg' = [msg EXCEPT ![i] = LowerChar(@)]
    /\ UNCHANGED <<pieces, response, base, baseResponse, pending, served, environ, probe, result>>

\* A whitespace character is put before or after the message.
Pad(w, left) ==
    /\ Altering
    /\ Len(msg) < Len(base) + MaxPad
    /\ msg' = IF left THEN <<w>> \o msg ELSE msg \o <<w>>
    /\ UNCHANGED <<pieces, response, base, baseResponse, pending, served, environ, probe, result>>

\* A whitespace character is taken off the start or the end of the message.
Trim(left) ==
    /\ Altering
    /\ Len(msg) > 0
    /\ (IF left THEN msg[1] ELSE msg[Len(msg)]) \in Whitespace
    /\ msg' = IF left THEN Tail(msg) ELSE SubSeq(msg, 1, Len(msg) - 1)
    /\ UNCHANGED <<pieces, response, base, baseResponse, pending, served, environ, probe, result>>

\* generate_reply(msg) is called on the altered message and returns.
CallVariant ==
    /\ Altering
    /\ response' = << generate_reply(msg) >>
    /\ UNCHANGED <<msg, pieces, base, baseResponse, pending, served, environ, probe, result>>

NextNorm ==
    \/ CallBase
    \/ \E i \in 1..Len(msg) : ToUpper(i)
    \/ \E i \in 1..Len(msg) : ToLower(i)
    \/ \E w \in Whitespace, left \in BOOLEAN : Pad(w, left)
    \/ \E left \in BOOLEAN : Trim(left)
    \/ CallVariant

SpecNorm == InitNorm /\ [][NextNorm]_vars

\* The letters a to z and the three Norwegian ones, small or capital: each
\* small one is the lower() of its capital and each capital the upper() of
\* its small one.
BasicLetters == Range(SmallLetters) \cup Range(CapitalLetters)

SameLetter(c, d) ==
    \E k \in 1..Len(SmallLetters) : {c, d} \subseteq {SmallLetters[k], CapitalLetters[k]}

\* m is b with basic letters changed in case and whitespace added or
\* removed at the two ends.
BasicVariant(b, m) ==
    LET sb == strip(b)
        sm == strip(m)
    IN  /\ Len(sb) = Len(sm)
        /\ \A i \in 1..Len(sb) : sm[i] = sb[i] \/ SameLetter(sb[i], sm[i])

\* C3 as stated: the altered message gets the response of the message it
\* was made from, whatever letters were changed in case.
C3_AnyCaseChange == (Replied /\ baseResponse # << >>) => response = baseResponse

\* C3 as amended: a message altered only in the case of the letters a to z
\* and of the Norwegian letters and in the whitespace at its two ends gets
\* the response of the message it was made from; "HEI", " hei " and "hei"
\* all get the Greeting response.
C3_BasicCaseAndTrim ==
    (Replied /\ baseResponse # << >>) =>
        /\ BasicVariant(base, msg) => response = baseResponse
        /\ strip(msg) \in {<<"h","e","i">>, <<"H","E","I">>} =>
              response[1] = GreetingResponse

\* C3 witness: "omr(aa)de", with its a-with-ring made a capital and a
\* whitespace character added, was answered with the Coverage response.
C3_Witness ==
    /\ Replied
    /\ base = <<"o","m","r","aa","d","e">>
    /\ Len(msg) = Len(base) + 1
    /\ \E i \in 1..Len(msg) : msg[i] = "AA"
    /\ response[1] = CoverageResponse

-----------------------------------------------------------------------------
(* POST /api/chat: requests arrive, wait and are answered in any order.    *)

MaxRequests == 2

\* ChatRequest: the message and the optional history, a list of dicts.
ChatRequest(message, history) == [message |-> message, history |-> history]

NoHistory == [given |-> FALSE, turns |-> << >>]

History(turns) == [given |-> TRUE, turns |-> turns]

Turn(role, content) == [role |-> role, content |-> content]

Histories ==
    { NoHistory,
      History(<< >>),
      History(<< Turn("user", <<"h","e","i">>),
                 Turn("assistant", <<"n","y","b","y","g","g">>) >>) }

ChatMessages ==
    { << >>, <<"h","e","i">>, <<"t","i","l","b","u","d">>,
      <<"T","i","l","b","u","d"," ","k","l">>, <<"x">> }

\* chat that reads the history too: the last turn is put before the message.
chat_with_history(req) ==
    generate_reply(
        IF req.history.given /\ Len(req.history.turns) > 0
        THEN req.history.turns[Len(req.history.turns)].content \o <<" ">> \o req.message
        ELSE req.message)

\* chat(req)
chat(req) == generate_reply(req.message)

InitChat ==
    /\ msg = << >>
    /\ pieces = 0
    /\ response = << >>
    /\ base = << >>
    /\ baseResponse = << >>
    /\ pending = {}
    /\ served = << >>
    /\ environ = [DATABASE_URL |-> None, DATABASE_NAME |-> None]
    /\ probe = << >>
    /\ result = << >>

\* A request arrives.
Receive(m, h) ==
    /\ Cardinality(pending) + Len(served) < MaxRequests
    /\ pending' = pending \cup
           { [id |-> Cardinality(pending) + Len(served) + 1, body |-> ChatRequest(m, h)] }
    /\ UNCHANGED <<msg, pieces, response, base, baseResponse, served, environ, probe, result>>

\* The handler runs on a waiting request and its response is sent.
Answer(q) ==
    /\ q \in pending
    /\ pending' = pending \ {q}
    /\ served' = Append(served, [id |-> q.id, body |-> q.body, response |-> chat(q.body)])
    /\ UNCHANGED <<msg, pieces, response, base, baseResponse, environ, probe, result>>

NextChat ==
    \/ \E m \in ChatMessages, h \in Histories : Receive(m, h)
    \/ \E q \in pending : Answer(q)

SpecChat == InitChat /\ [][NextChat]_vars

\* C5: two answered requests with the same message got the same reply and
\* suggestions, whatever their histories and whichever was answered first.
C5_MessageAlone ==
    \A i, j \in 1..Len(served) :
        served[i].body.message = served[j].body.message =>
            served[i].response = served[j].response

\* C5 witness: two requests with the same message and different histories
\* were answered, the later one first.
C5_Witness ==
    /\ Len(served) = 2
    /\ served[1].id > served[2].id
    /\ served[1].body.message = served[2].body.message
    /\ served[1].body.message # << >>
    /\ served[1].body.history # served[2].body.history

-----------------------------------------------------------------------------
(* GET /test.  A status text is a sequence: a fixed text, written here     *)
(* with [ok], [x] and [!] for its check-mark, cross and warning signs,     *)
(* followed by the characters of an exception message where the code       *)
(* appends one.                                                            *)

MaxMessage == 52

MaxCollections == 11

\* collections[:10]
CollectionsShown == 10

\* str(e)[:50], of the listing's exception and of the import's
ListingErrorShown == 50

ImportErrorShown == 50

\* s[:n]
Take(s, n) == SubSeq(s, 1, IF Len(s) < n THEN Len(s) ELSE n)

Digits == <<"0","1","2","3","4","5","6","7","8","9">>

\* An exception message of n characters: "1234567890123..."
Message(n) == [i \in 1..n |-> Digits[(i % 10) + 1]]

\* n collection names
Names(n) == [i \in 1..n |-> i]

\* What `from database import db` and the calls on db do in one request:
\* the import raises ImportError (a missing module is a ModuleNotFoundError,
\* which is one) or another Exception with a message, or gives db; db is
\* None or an object, with or without a name; db.list_collection_names()
\* returns a list or raises an Exception with a message.
Probe(import, db, hasName, listing, message, names) ==
    [import |-> import, db |-> db, hasName |-> hasName, listing |-> listing,
     message |-> message, names |-> names]

Probes ==
    { Probe("ImportError", "None", FALSE, "ok", << >>, << >>),
      Probe("ok", "None", FALSE, "ok", << >>, << >>) }
    \cup { Probe("Exception", "None", FALSE, "ok", Message(n), << >>) : n \in 0..MaxMessage }
    \cup { Probe("ok", "object", h, "Exception", Message(n), << >>) :
               h \in BOOLEAN, n \in 0..MaxMessage }
    \cup { Probe("ok", "object", h, "ok", << >>, Names(n)) :
               h \in BOOLEAN, n \in 0..MaxCollections }

DbName == << <<"r","a","i","l">> >>

\* os.getenv(key): None when the variable is not set, else its value, which
\* may be the empty text.
EnvValues == { None, << >>, <<"m","o","n","g","o">> }

\* the truth value of os.getenv(key)
Truthy(v) == v # None /\ v # << >>

Running == << "[ok] Running" >>

InitialResponse ==
    [backend |-> Running,
     database |-> << "[x] Not Available" >>,
     database_url |-> None,
     database_name |-> None,
     connection_status |-> << "Not Connected" >>,
     collections |-> << >>]

\* Lines 154 to 157: db is not None.
Connected(p) ==
    [InitialResponse EXCEPT
        !.database = << "[ok] Available" >>,
        !.database_url = << "[ok] Configured" >>,
        !.database_name = IF p.hasName THEN DbName ELSE << "[ok] Connected" >>,
        !.connection_status = << "Connected" >>]

\* Lines 160 to 165: the inner try and its except clause.
Listing(p) ==
    IF p.listing = "Exception"
    THEN [Connected(p) EXCEPT
             !.database = << "[!]  Connected but Error: " >>
                              \o Take(p.message, ListingErrorShown)]
    ELSE [Connected(p) EXCEPT
             !.collections = Take(p.names, CollectionsShown),
             !.database = << "[ok] Connected & Working" >>]

\* Lines 149 to 167: the body of the outer try; it ends normally or with
\* the exception the import raised.
TryBody(p) ==
    IF p.import # "ok"
    THEN [raised |-> p.import, message |-> p.message, response |-> InitialResponse]
    ELSE [raised |-> "",
          message |-> << >>,
          response |-> IF p.db = "None"
                       THEN [InitialResponse EXCEPT
                                !.database = << "[!]  Available but not initialized" >>]
                       ELSE Listing(p)]

\* The outer try with its first except clause only.
ExceptImportErrorOnly(t) ==
    IF t.raised = "ImportError"
    THEN [returned |-> TRUE,
          response |-> [t.response EXCEPT
              !.database = << "[x] Database module not found (run enable-database first)" >>]]
    ELSE [returned |-> t.raised = "", response |-> t.response]

\* Lines 169 to 172: the two except clauses of the outer try; an exception
\* neither catches leaves the handler.
ExceptClauses(t) ==
    IF t.raised = "ImportError"
    THEN [returned |-> TRUE,
          response |-> [t.response EXCEPT
              !.database = << "[x] Database module not found (run enable-database first)" >>]]
    ELSE IF t.raised = "Exception"
    THEN [returned |-> TRUE,
          response |-> [t.response EXCEPT
              !.database = << "[x] Error: " >> \o Take(t.message, ImportErrorShown)]]
    ELSE [returned |-> t.raised = "", response |-> t.response]

\* The two fields are set from the environment only where the probe left
\* them None.
CheckEnvironmentKeep(r, env) ==
    [r EXCEPT
        !.database_url = IF @ # None THEN @
                         ELSE IF Truthy(env.DATABASE_URL)
                         THEN << "[ok] Set" >> ELSE << "[x] Not Set" >>,
        !.database_name = IF @ # None THEN @
                          ELSE IF Truthy(env.DATABASE_NAME)
                          THEN << "[ok] Set" >> ELSE << "[x] Not Set" >>]

\* Lines 174 to 177: the two fields are set from the environment.
CheckEnvironment(r, env) ==
    [r EXCEPT
        !.database_url = IF Truthy(env.DATABASE_URL)
                         THEN << "[ok] Set" >> ELSE << "[x] Not Set" >>,
        !.database_name = IF Truthy(env.DATABASE_NAME)
                          THEN << "[ok] Set" >> ELSE << "[x] Not Set" >>]

\* test_database(): what the request ends with, the dict it returns or the
\* exception that leaves it.
test_database(p, env) ==
    LET h == ExceptClauses(TryBody(p))
    IN  IF h.returned
        THEN [returned |-> TRUE, response |-> CheckEnvironment(h.response, env)]
        ELSE h

InitTest ==
    /\ msg = << >>
    /\ pieces = 0
    /\ response = << >>
    /\ base = << >>
    /\ baseResponse = << >>
    /\ pending = {}
    /\ served = << >>
    /\ environ \in [DATABASE_URL : EnvValues, DATABASE_NAME : EnvValues]
    /\ probe = << >>
    /\ result = << >>

\* One GET /test, in which the database module behaves as p says.
GetTest(p) ==
    /\ probe' = << p >>
    /\ result' = << test_database(p, environ) >>
    /\ UNCHANGED <<msg, pieces, response, base, baseResponse, pending, served, environ>>

NextTest == \E p \in Probes : GetTest(p)

SpecTest == InitTest /\ [][NextTest]_vars

\* The outcome of the database probe in a request.
Outcome(p) ==
    IF p.import = "ImportError" THEN "module missing"
    ELSE IF p.import = "Exception" THEN "import raised"
    ELSE IF p.db = "None" THEN "db is None"
    ELSE IF p.listing = "Exception" THEN "listing raised"
    ELSE "working"

Outcomes == {"module missing", "import raised", "db is None", "listing raised", "working"}

\* The fixed text each outcome's database status starts with.
StatusHead(o) ==
    CASE o = "module missing" -> "[x] Database module not found (run enable-database first)"
      [] o = "import raised" -> "[x] Error: "
      [] o = "db is None" -> "[!]  Available but not initialized"
      [] o = "listing raised" -> "[!]  Connected but Error: "
      [] o = "working" -> "[ok] Connected & Working"

\* status is the fixed text head followed by the first 50 characters, or
\* all if there are fewer, of the exception message.
HeadAndCut(status, head, message) ==
    /\ Len(status) >= 1 /\ status[1] = head
    /\ Len(status) - 1 <= 50
    /\ Len(status) - 1 = (IF Len(message) < 50 THEN Len(message) ELSE 50)
    /\ \A i \in 1..(Len(status) - 1) : status[i + 1] = message[i]

\* C8: GET /test returns whatever the probe does, with backend reported as
\* running; the database status starts with a text of its own for each
\* outcome, the one of a missing module being no error status, and carries
\* at most the first 50 characters of the exception message.
C8_ProbeNeverPropagates ==
    result # << >> =>
        LET p == probe[1]
            r == result[1]
            status == r.response.database
        IN  /\ r.returned
            /\ r.response.backend = << "[ok] Running" >>
            /\ status[1] = StatusHead(Outcome(p))
            /\ \A o1, o2 \in Outcomes : StatusHead(o1) = StatusHead(o2) => o1 = o2
            /\ Outcome(p) \in {"module missing", "db is None", "working"} => Len(status) = 1
            /\ Outcome(p) \in {"import raised", "listing raised"} =>
                  HeadAndCut(status, StatusHead(Outcome(p)), p.message)

\* C8 witness: the import raised an exception with a message of more than
\* 50 characters and the request returned.
C8_Witness ==
    /\ result # << >>
    /\ probe[1].import = "Exception"
    /\ Len(probe[1].message) > 50
    /\ result[1].returned
    /\ Len(result[1].response.database) = 51

\* C9 as stated: each of the two fields is the Set marker if its variable
\* is set and the Not Set marker if it is not, never what the probe wrote.
C9_SetMeansSet ==
    result # << >> =>
        /\ result[1].response.database_url =
              (IF environ.DATABASE_URL # None THEN << "[ok] Set" >> ELSE << "[x] Not Set" >>)
        /\ result[1].response.database_name =
              (IF environ.DATABASE_NAME # None THEN << "[ok] Set" >> ELSE << "[x] Not Set" >>)

\* C9 as amended: each of the two fields is the Set marker if its variable
\* is set to a non-empty value and the Not Set marker if it is unset or
\* empty, never what the probe wrote ("Configured", db.name).
C9_NonEmptyMeansSet ==
    result # << >> =>
        /\ result[1].returned
        /\ result[1].response.database_url =
              (IF environ.DATABASE_URL \notin {None, << >>}
               THEN << "[ok] Set" >> ELSE << "[x] Not Set" >>)
        /\ result[1].response.database_name =
              (IF environ.DATABASE_NAME \notin {None, << >>}
               THEN << "[ok] Set" >> ELSE << "[x] Not Set" >>)
        /\ result[1].response.database_url # << "[ok] Configured" >>
        /\ result[1].response.database_name \notin {DbName, << "[ok] Connected" >>}

\* C9 witness: the probe succeeded on a db with a name, DATABASE_URL is set
\* and DATABASE_NAME is not, and the response says so.
C9_Witness ==
    /\ result # << >>
    /\ Outcome(probe[1]) = "working" /\ probe[1].hasName
    /\ environ.DATABASE_URL \notin {None, << >>} /\ environ.DATABASE_NAME = None
    /\ result[1].response.database_url = << "[ok] Set" >>
    /\ result[1].response.database_name = << "[x] Not Set" >>

=============================================================================
